---- MODULE Spec2Model ----
(***************************************************************************)
(* Model of the client-side result post-processing of src/utils.py:        *)
(*   search_hybrid_fusion  (weighted fusion of a dense and a sparse         *)
(*                          result list, lines 261-331)                     *)
(*   mmr_rerank            (Maximal Marginal Relevance, lines 334-381)      *)
(*                                                                         *)
(* Numbers.  Scores and weights are floats in the source.  The model uses  *)
(* fixed-point integers: a score or a weight x is held as x * WScale, and  *)
(* the provider's scores are whole numbers, so that every product the      *)
(* fusion forms is exact.                                                   *)
(***************************************************************************)
EXTENDS Integers, Sequences, FiniteSets, TLC

VARIABLES
    \* ---- search_hybrid_fusion ----
    provider_dense,   \* what client.search returns for the dense vector
    provider_sparse,  \* what client.search returns for the sparse vector
    dense_weight,     \* argument dense_weight (fixed point)
    final_limit,      \* argument final_limit
    fpc,              \* "ready" before the call, "returned" after it
    dense_results,    \* the dense result objects, as they are after the call
    sparse_results,   \* the sparse result objects, as they are after the call
    fused_results,    \* the returned list: references to result objects
    fusion_error,     \* the exception the call raised, "none" when none
    \* ---- mmr_rerank ----
    query_vector,       \* argument query_vector
    candidate_vectors,  \* argument candidate_vectors, indexed 0..n-1
    lambda_param,       \* argument lambda_param (fixed point, LScale = 1.0)
    k,                  \* argument k
    mpc,                \* "ready", "loop", "returned"
    selected_indices,   \* local selected_indices
    remaining_indices,  \* local remaining_indices
    iters_left,         \* iterations the for loop of line 359 still runs
    mmr_result,         \* the returned list, as indices into candidate_results
    mmr_error,          \* the exception the call raised, "none" when none
    \* ---- exact_topk ----
    topk_query_vector,  \* argument query_vector
    all_vectors,        \* argument all_vectors, indexed 0..n-1
    topk_k,             \* argument k
    tpc,                \* "ready", "returned"
    topk_result,        \* the returned list of <<index, score>>
    \* ---- calculate_recall_at_k ----
    predicted,          \* argument predicted
    ground_truth,       \* argument ground_truth
    recall_k,           \* argument k
    rpc,                \* "ready", "returned"
    recall,             \* the returned float, as the fraction [num, den]
    \* ---- ensure_collection ----
    collections,        \* the server's collections: name -> configuration
    ec_pc,              \* "idle", the line the call is at, "returned"
    ec_args,            \* arguments of the latest call
    ec_before,          \* the named collection, if any, when the latest call began
    client_calls        \* the client calls the latest call made, in order

fvars == <<provider_dense, provider_sparse, dense_weight, final_limit, fpc,
           dense_results, sparse_results, fused_results, fusion_error>>
mvars == <<query_vector, candidate_vectors, lambda_param, k, mpc,
           selected_indices, remaining_indices, iters_left, mmr_result,
           mmr_error>>
tvars == <<topk_query_vector, all_vectors, topk_k, tpc, topk_result>>
rvars == <<predicted, ground_truth, recall_k, rpc, recall>>
cvars == <<collections, ec_pc, ec_args, ec_before, client_calls>>
vars == <<fvars, mvars, tvars, rvars, cvars>>

(***************************************************************************)
(* Bounds of the model                                                     *)
(***************************************************************************)
MaxLen == 2      \* longest result list a search returns
WScale == 2      \* fixed-point units per 1.0 for scores and dense_weight
MaxCand == 3     \* most candidates handed to mmr_rerank
LScale == 2      \* fixed-point units per 1.0 for lambda_param

Ids == 1..3                                   \* point ids
ScoreInts == {-1, 1, 2}                       \* whole-number provider scores
ProviderScores == {WScale * x : x \in ScoreInts}
Weights == (-1)..(WScale + 1)                 \* -1/WScale .. 1 + 1/WScale
FinalLimits == (-1)..Cardinality(Ids)

\* Embedding vectors: two components, whole-number L2 norm
VecSet == {<<1, 0>>, <<-1, 0>>, <<0, 1>>, <<0, 2>>, <<3, 4>>, <<4, 3>>}
QuerySet == {<<1, 0>>, <<0, 2>>, <<4, 3>>}
\* The same with vectors of zero norm among them
ZeroVec == <<0, 0>>
AnyVecSet == {ZeroVec, <<1, 0>>, <<-1, 0>>, <<0, 1>>, <<3, 4>>}
AnyQuerySet == {ZeroVec, <<1, 0>>, <<4, 3>>}
Lambdas == 0..LScale
Ks == 0..(MaxCand + 1)
RecallKs == (-1)..(MaxLen + 1)

Min(a, b) == IF a <= b THEN a ELSE b
Max(a, b) == IF a >= b THEN a ELSE b

(***************************************************************************)
(* Python helpers                                                          *)
(***************************************************************************)
\* seq[:n]
PySlicePrefix(seq, n) ==
    IF n >= 0 THEN SubSeq(seq, 1, Min(n, Len(seq)))
    ELSE SubSeq(seq, 1, Max(Len(seq) + n, 0))

\* Iteration order of a set of small non-negative ints in CPython: an int
\* hashes to itself and the table has more slots than the largest id, so the
\* slots, and the iteration, are in ascending order of id.
RECURSIVE SetIterOrder(_)
SetIterOrder(S) ==
    IF S = {} THEN <<>>
    ELSE LET m == CHOOSE x \in S : \A y \in S : x <= y
         IN <<m>> \o SetIterOrder(S \ {m})

\* Mutant of InsertDesc: ascending instead of descending (reverse=True lost).
RECURSIVE InsertAsc(_, _, _)
InsertAsc(sorted, x, key) ==
    IF sorted = <<>> THEN <<x>>
    ELSE IF key[Head(sorted)] <= key[x]
         THEN <<Head(sorted)>> \o InsertAsc(Tail(sorted), x, key)
         ELSE <<x>> \o sorted

\* Insert x into a sequence sorted by descending key, after every element
\* whose key is >= key[x]: the sort is stable.
RECURSIVE InsertDesc(_, _, _)
InsertDesc(sorted, x, key) ==
    IF sorted = <<>> THEN <<x>>
    ELSE IF key[Head(sorted)] >= key[x]
         THEN <<Head(sorted)>> \o InsertDesc(Tail(sorted), x, key)
         ELSE <<x>> \o sorted

\* sorted(seq, key=lambda x: key[x], reverse=True): stable, descending.
RECURSIVE SortedReverse(_, _)
SortedReverse(seq, key) ==
    IF seq = <<>> THEN <<>>
    ELSE InsertDesc(SortedReverse(SubSeq(seq, 1, Len(seq) - 1), key),
                    seq[Len(seq)], key)

(***************************************************************************)
(* search_hybrid_fusion                                                    *)
(***************************************************************************)
\* {r.id: r.score for r in results}: a later duplicate overwrites.
ScoreDict(results) ==
    LET keys == {results[i].id : i \in 1..Len(results)}
        last(id) == CHOOSE i \in 1..Len(results) :
                        /\ results[i].id = id
                        /\ \A j \in 1..Len(results) : results[j].id = id => j <= i
    IN [id \in keys |-> results[last(id)].score]

\* Mutant of DictGet: a missing id counts as 1.0 instead of 0.
DictGetDefaultOne(d, key) == IF key \in DOMAIN d THEN d[key] ELSE WScale

\* d.get(key, 0)
DictGet(d, key) == IF key \in DOMAIN d THEN d[key] ELSE 0

\* a * b in fixed point
FMul(a, b) == (a * b) \div WScale

\* Mutant of FusedScore: the two weights swapped.
FusedScoreSwapped(w, d_score, s_score) ==
    FMul(WScale - w, d_score) + FMul(w, s_score)

FusedScore(w, d_score, s_score) == FMul(w, d_score) + FMul(WScale - w, s_score)

all_ids(dense, sparse) == DOMAIN ScoreDict(dense) \cup DOMAIN ScoreDict(sparse)

fused_scores(dense, sparse, w) ==
    [point_id \in all_ids(dense, sparse) |->
        FusedScore(w, DictGet(ScoreDict(dense), point_id),
                      DictGet(ScoreDict(sparse), point_id))]

sorted_ids(dense, sparse, w, limit) ==
    PySlicePrefix(SortedReverse(SetIterOrder(all_ids(dense, sparse)),
                                fused_scores(dense, sparse, w)),
                  limit)

\* A result object is named by the list it came in and its place there.
Ref(src, pos) == <<src, pos>>

\* dense_results + sparse_results, as references
Concatenated(dense, sparse) ==
    [i \in 1..(Len(dense) + Len(sparse)) |->
        IF i <= Len(dense) THEN Ref("dense", i) ELSE Ref("sparse", i - Len(dense))]

RefObj(dense, sparse, ref) ==
    IF ref[1] = "dense" THEN dense[ref[2]] ELSE sparse[ref[2]]

\* {r.id: r for r in (dense_results + sparse_results)}: a later entry of the
\* concatenation overwrites an earlier one with the same id.
result_map(dense, sparse) ==
    LET cat == Concatenated(dense, sparse)
        keys == {RefObj(dense, sparse, cat[i]).id : i \in 1..Len(cat)}
        last(id) == CHOOSE i \in 1..Len(cat) :
                        /\ RefObj(dense, sparse, cat[i]).id = id
                        /\ \A j \in 1..Len(cat) :
                              RefObj(dense, sparse, cat[j]).id = id => j <= i
    IN [id \in keys |-> cat[last(id)]]

\* The loop of lines 325-329, as the list of references it appends.
RECURSIVE FusedRefs(_, _)
FusedRefs(ids, rmap) ==
    IF ids = <<>> THEN <<>>
    ELSE IF Head(ids) \in DOMAIN rmap
         THEN <<rmap[Head(ids)]>> \o FusedRefs(Tail(ids), rmap)
         ELSE FusedRefs(Tail(ids), rmap)

\* Mutant of ScoresUpdated: every object carrying a returned id is updated.
ScoresUpdatedById(results, src, refs, fscores) ==
    [i \in 1..Len(results) |->
        IF results[i].id \in DOMAIN fscores
        THEN [results[i] EXCEPT !.score = fscores[results[i].id]]
        ELSE results[i]]

\* result.score = fused_scores[point_id], seen from one of the two lists
ScoresUpdated(results, src, refs, fscores) ==
    [i \in 1..Len(results) |->
        IF \E j \in 1..Len(refs) : refs[j] = Ref(src, i)
        THEN [results[i] EXCEPT !.score = fscores[results[i].id]]
        ELSE results[i]]

SearchHybridFusion ==
    /\ fpc = "ready"
    /\ LET dense == provider_dense
           sparse == provider_sparse
           fs == fused_scores(dense, sparse, dense_weight)
           ids == sorted_ids(dense, sparse, dense_weight, final_limit)
           refs == FusedRefs(ids, result_map(dense, sparse))
       IN /\ dense_results' = ScoresUpdated(dense, "dense", refs, fs)
          /\ sparse_results' = ScoresUpdated(sparse, "sparse", refs, fs)
          /\ fused_results' = refs
    /\ fusion_error' = "none"
    /\ fpc' = "returned"
    /\ UNCHANGED <<provider_dense, provider_sparse, dense_weight, final_limit>>
    /\ UNCHANGED <<mvars, tvars, rvars, cvars>>

\* The result lists a search provider returns: distinct ids, best score first.
ResultLists(payload) ==
    LET Cands == [id : Ids, score : ProviderScores, payload : {payload}]
        All == UNION {[1..n -> Cands] : n \in 0..MaxLen}
    IN {s \in All :
          /\ \A i, j \in 1..Len(s) : i < j => s[i].id # s[j].id
          /\ \A i \in 1..(Len(s) - 1) : s[i].score >= s[i + 1].score}

NoArgs == [collection_name |-> "", force_recreate |-> FALSE,
           vector_config |-> [is_dict |-> FALSE, params |-> {}]]

TopkIdle ==
    /\ topk_query_vector = <<>>
    /\ all_vectors = <<>>
    /\ topk_k = 0
    /\ tpc = "idle"
    /\ topk_result = <<>>

RecallIdle ==
    /\ predicted = <<>>
    /\ ground_truth = <<>>
    /\ recall_k = 0
    /\ rpc = "idle"
    /\ recall = [num |-> 0, den |-> 1]

ClientIdle ==
    /\ collections = <<>>
    /\ ec_pc = "idle"
    /\ ec_args = NoArgs
    /\ ec_before = <<>>
    /\ client_calls = <<>>

MmrIdle ==
    /\ query_vector = <<>>
    /\ candidate_vectors = <<>>
    /\ lambda_param = 0
    /\ k = 0
    /\ mpc = "idle"
    /\ selected_indices = <<>>
    /\ remaining_indices = <<>>
    /\ iters_left = 0
    /\ mmr_result = <<>>
    /\ mmr_error = "none"

FusionInit ==
    /\ provider_dense \in ResultLists("dense")
    /\ provider_sparse \in ResultLists("sparse")
    /\ dense_weight \in Weights
    /\ final_limit \in FinalLimits
    /\ fpc = "ready"
    /\ dense_results = <<>>
    /\ sparse_results = <<>>
    /\ fused_results = <<>>
    /\ fusion_error = "none"
    /\ MmrIdle
    /\ TopkIdle
    /\ RecallIdle
    /\ ClientIdle

FusionNext == SearchHybridFusion

FusionSpec == FusionInit /\ [][FusionNext]_vars

(***************************************************************************)
(* mmr_rerank                                                              *)
(*                                                                         *)
(* A normalized vector component x is held as x * Unit, Unit being a       *)
(* common multiple of the norms of the vectors of the model, so a cosine   *)
(* similarity c is held as c * Unit * Unit and an MMR score m as           *)
(* m * LScale * Unit * Unit, all exactly.  The float NaN, which numpy      *)
(* yields for 0 / 0, is held as the number NaN, below every held score.    *)
(***************************************************************************)
Abs(x) == IF x >= 0 THEN x ELSE -x

RECURSIVE SumSq(_)
SumSq(v) == IF v = <<>> THEN 0 ELSE Head(v) * Head(v) + SumSq(Tail(v))

RECURSIVE SumAbs(_)
SumAbs(v) == IF v = <<>> THEN 0 ELSE Abs(Head(v)) + SumAbs(Tail(v))

\* np.linalg.norm(v), for a vector whose norm is a whole number
Norm(v) == CHOOSE n \in 0..SumAbs(v) : n * n = SumSq(v)

RECURSIVE Product(_)
Product(S) ==
    IF S = {} THEN 1
    ELSE LET x == CHOOSE y \in S : TRUE IN x * Product(S \ {x})

Unit == Product({Norm(v) : v \in VecSet \cup QuerySet})

NaN == -(4 * LScale * Unit * Unit)

\* a > b on floats: false when either side is NaN
FloatGt(a, b) == a # NaN /\ b # NaN /\ a > b

\* v / np.linalg.norm(v); numpy divides by a zero norm without raising, and
\* every component of a vector of zero norm is 0, so each quotient is NaN.
Divided(v) ==
    IF Norm(v) = 0 THEN [i \in 1..Len(v) |-> NaN]
    ELSE [i \in 1..Len(v) |-> (v[i] * Unit) \div Norm(v)]

\* The same, computed once for every vector of the model
NormalizedTable ==
    [v \in VecSet \cup QuerySet \cup AnyVecSet \cup AnyQuerySet |-> Divided(v)]
Normalized(v) == NormalizedTable[v]

RECURSIVE SumProd(_, _)
SumProd(u, v) ==
    IF u = <<>> THEN 0 ELSE Head(u) * Head(v) + SumProd(Tail(u), Tail(v))

\* np.dot(u, v): NaN as soon as a component is
Dot(u, v) ==
    IF \E i \in 1..Len(u) : u[i] = NaN \/ v[i] = NaN THEN NaN ELSE SumProd(u, v)

NumCandidates(cands) == Cardinality(DOMAIN cands)

candidates_norm(cands) == [i \in DOMAIN cands |-> Normalized(cands[i])]

relevance_scores(q, cands) ==
    [i \in DOMAIN cands |-> Dot(candidates_norm(cands)[i], Normalized(q))]

\* Mutant of ArgMax: the last index holding the maximum.
ArgMaxLast(f) ==
    CHOOSE i \in DOMAIN f :
        /\ \A j \in DOMAIN f : f[j] <= f[i]
        /\ \A j \in DOMAIN f : f[j] = f[i] => j <= i

\* np.argmax(f): the first index holding the maximum; a NaN counts as the
\* maximum, so with NaNs in f it is the index of the first NaN
ArgMax(f) ==
    IF \E i \in DOMAIN f : f[i] = NaN
    THEN CHOOSE i \in DOMAIN f :
            f[i] = NaN /\ \A j \in DOMAIN f : f[j] = NaN => i <= j
    ELSE CHOOSE i \in DOMAIN f :
            /\ \A j \in DOMAIN f : f[j] <= f[i]
            /\ \A j \in DOMAIN f : f[j] = f[i] => i <= j

\* The builtin max(a, b): b only when b > a
PyMax(a, b) == IF FloatGt(b, a) THEN b ELSE a

\* list(range(n))
RangeList(n) == [i \in 1..n |-> i - 1]

\* Mutant of ListRemove: the first element is taken out, whatever x is.
ListRemoveHead(lst, x) == Tail(lst)

\* lst.remove(x): the first occurrence is taken out
RECURSIVE ListRemove(_, _)
ListRemove(lst, x) ==
    IF lst = <<>> THEN <<>>
    ELSE IF Head(lst) = x THEN Tail(lst)
         ELSE <<Head(lst)>> \o ListRemove(Tail(lst), x)

\* Lines 367-370: max_sim starts at 0 and takes the larger of itself and each
\* similarity to a selected candidate.
RECURSIVE MaxSimFrom(_, _, _, _)
MaxSimFrom(max_sim, cands, idx, selected) ==
    IF selected = <<>> THEN max_sim
    ELSE MaxSimFrom(PyMax(max_sim,
                          Dot(candidates_norm(cands)[idx],
                              candidates_norm(cands)[Head(selected)])),
                    cands, idx, Tail(selected))

max_sim(cands, idx, selected) == MaxSimFrom(0, cands, idx, selected)

\* Mutant of mmr_score: the weights of relevance and similarity swapped.
mmr_score_swapped(q, cands, lam, idx, selected) ==
    (LScale - lam) * relevance_scores(q, cands)[idx]
        - lam * max_sim(cands, idx, selected)

\* Line 373
mmr_score(q, cands, lam, idx, selected) ==
    IF relevance_scores(q, cands)[idx] = NaN \/ max_sim(cands, idx, selected) = NaN
    THEN NaN
    ELSE lam * relevance_scores(q, cands)[idx]
            - (LScale - lam) * max_sim(cands, idx, selected)

\* Lines 360-374: the list of (idx, mmr_score), in the order of remaining
mmr_scores(q, cands, lam, remaining, selected) ==
    [p \in 1..Len(remaining) |->
        <<remaining[p], mmr_score(q, cands, lam, remaining[p], selected)>>]

\* Mutant of BestOf: the last pair holding the maximum.
BestOfLast(pairs) ==
    LET p == CHOOSE a \in 1..Len(pairs) :
                /\ \A b \in 1..Len(pairs) : pairs[b][2] <= pairs[a][2]
                /\ \A b \in 1..Len(pairs) : pairs[b][2] = pairs[a][2] => b <= a
    IN pairs[p][1]

\* The builtin max over a list with a key: the first item is kept until a
\* later one has a strictly greater key
RECURSIVE BestFrom(_, _)
BestFrom(best, rest) ==
    IF rest = <<>> THEN best
    ELSE BestFrom(IF FloatGt(Head(rest)[2], best[2]) THEN Head(rest) ELSE best,
                  Tail(rest))

\* max(mmr_scores, key=lambda x: x[1])[0]
BestOf(pairs) == BestFrom(Head(pairs), Tail(pairs))[1]

\* Lines 342-343: no candidates, empty list returned
MmrRerankEmpty ==
    /\ mpc = "ready"
    /\ NumCandidates(candidate_vectors) = 0
    /\ mmr_result' = <<>>
    /\ mmr_error' = "none"
    /\ mpc' = "returned"
    /\ UNCHANGED <<query_vector, candidate_vectors, lambda_param, k,
                   selected_indices, remaining_indices, iters_left>>
    /\ UNCHANGED <<fvars, tvars, rvars, cvars>>

\* Lines 345-359: the most relevant candidate is selected and the number of
\* iterations of the for loop, range(min(k - 1, len(remaining_indices))), fixed.
MmrRerankFirst ==
    /\ mpc = "ready"
    /\ NumCandidates(candidate_vectors) > 0
    /\ LET first_idx == ArgMax(relevance_scores(query_vector, candidate_vectors))
           remaining == ListRemove(RangeList(NumCandidates(candidate_vectors)), first_idx)
       IN /\ selected_indices' = <<first_idx>>
          /\ remaining_indices' = remaining
          /\ iters_left' = Max(0, Min(k - 1, Len(remaining)))
    /\ mpc' = "loop"
    /\ UNCHANGED <<query_vector, candidate_vectors, lambda_param, k, mmr_result,
                   mmr_error>>
    /\ UNCHANGED <<fvars, tvars, rvars, cvars>>

\* Lines 359-379: one iteration of the for loop
MmrSelectNext ==
    /\ mpc = "loop"
    /\ iters_left > 0
    /\ LET best_idx == BestOf(mmr_scores(query_vector, candidate_vectors, lambda_param,
                                         remaining_indices, selected_indices))
       IN /\ selected_indices' = Append(selected_indices, best_idx)
          /\ remaining_indices' = ListRemove(remaining_indices, best_idx)
    /\ iters_left' = iters_left - 1
    /\ UNCHANGED <<query_vector, candidate_vectors, lambda_param, k, mpc, mmr_result,
                   mmr_error>>
    /\ UNCHANGED <<fvars, tvars, rvars, cvars>>

\* Line 381
MmrReturn ==
    /\ mpc = "loop"
    /\ iters_left = 0
    /\ mmr_result' = selected_indices
    /\ mmr_error' = "none"
    /\ mpc' = "returned"
    /\ UNCHANGED <<query_vector, candidate_vectors, lambda_param, k,
                   selected_indices, remaining_indices, iters_left>>
    /\ UNCHANGED <<fvars, tvars, rvars, cvars>>

FusionIdle ==
    /\ provider_dense = <<>>
    /\ provider_sparse = <<>>
    /\ dense_weight = 0
    /\ final_limit = 0
    /\ fpc = "idle"
    /\ dense_results = <<>>
    /\ sparse_results = <<>>
    /\ fused_results = <<>>
    /\ fusion_error = "none"

MmrInit ==
    /\ query_vector \in QuerySet
    /\ candidate_vectors \in UNION {[0..(n - 1) -> VecSet] : n \in 0..MaxCand}
    /\ lambda_param \in Lambdas
    /\ k \in Ks
    /\ mpc = "ready"
    /\ selected_indices = <<>>
    /\ remaining_indices = <<>>
    /\ iters_left = 0
    /\ mmr_result = <<>>
    /\ mmr_error = "none"
    /\ FusionIdle
    /\ TopkIdle
    /\ RecallIdle
    /\ ClientIdle

\* Calls whose query or candidates may have zero norm
MmrAnyInit ==
    /\ query_vector \in AnyQuerySet
    /\ candidate_vectors \in UNION {[0..(n - 1) -> AnyVecSet] : n \in 0..MaxCand}
    /\ lambda_param \in Lambdas
    /\ k \in Ks
    /\ mpc = "ready"
    /\ selected_indices = <<>>
    /\ remaining_indices = <<>>
    /\ iters_left = 0
    /\ mmr_result = <<>>
    /\ mmr_error = "none"
    /\ FusionIdle
    /\ TopkIdle
    /\ RecallIdle
    /\ ClientIdle

MmrNext ==
    \/ MmrRerankEmpty
    \/ MmrRerankFirst
    \/ MmrSelectNext
    \/ MmrReturn

MmrSpec == MmrInit /\ [][MmrNext]_vars

MmrAnySpec == MmrAnyInit /\ [][MmrNext]_vars

(***************************************************************************)
(* exact_topk                                                              *)
(***************************************************************************)
\* The orders of the indices of f in which the values of f ascend.  np.argsort
\* with its default kind is not a stable sort: which of two equal values comes
\* first depends on the numpy build and the array, so every such order is one
\* the call can produce.
ArgSorts(f) ==
    LET n == Cardinality(DOMAIN f)
    IN {order \in [1..n -> DOMAIN f] :
          /\ \A a, b \in 1..n : a < b => order[a] # order[b]
          /\ \A a \in 1..(n - 1) : f[order[a]] <= f[order[a + 1]]}

\* seq[::-1]
Reversed(seq) == [i \in 1..Len(seq) |-> seq[Len(seq) + 1 - i]]

\* Lines 391-395
similarities(q, vectors) ==
    [i \in DOMAIN vectors |-> Dot(Normalized(vectors[i]), Normalized(q))]

\* Lines 384-401
ExactTopk ==
    /\ tpc = "ready"
    /\ \E order \in ArgSorts(similarities(topk_query_vector, all_vectors)) :
          LET sims == similarities(topk_query_vector, all_vectors)
              top_indices == PySlicePrefix(Reversed(order), topk_k)
          IN topk_result' =
                [p \in 1..Len(top_indices) |-> <<top_indices[p], sims[top_indices[p]]>>]
    /\ tpc' = "returned"
    /\ UNCHANGED <<topk_query_vector, all_vectors, topk_k>>
    /\ UNCHANGED <<fvars, mvars, rvars, cvars>>

TopkInit ==
    /\ topk_query_vector \in QuerySet
    /\ all_vectors \in UNION {[0..(n - 1) -> VecSet] : n \in 0..MaxCand}
    /\ topk_k \in Ks
    /\ tpc = "ready"
    /\ topk_result = <<>>
    /\ FusionIdle
    /\ MmrIdle
    /\ RecallIdle
    /\ ClientIdle

TopkNext == ExactTopk

TopkSpec == TopkInit /\ [][TopkNext]_vars

(***************************************************************************)
(* calculate_recall_at_k                                                   *)
(***************************************************************************)
\* set(seq)
PySet(seq) == {seq[i] : i \in 1..Len(seq)}

\* Line 425
pred_set(pred, kk) == PySet(PySlicePrefix(pred, kk))

\* Mutant of truth_set: the ground truth is not cut at k.
truth_set_uncut(truth, kk) == PySet(truth)

\* Line 426
truth_set(truth, kk) == PySet(PySlicePrefix(truth, kk))

\* Lines 428-432; a / b is held as the fraction [num |-> a, den |-> b] and 0.0
\* as 0 / 1
RecallAtK(pred, truth, kk) ==
    IF Cardinality(truth_set(truth, kk)) = 0
    THEN [num |-> 0, den |-> 1]
    ELSE [num |-> Cardinality(pred_set(pred, kk) \cap truth_set(truth, kk)),
          den |-> Cardinality(truth_set(truth, kk))]

CalculateRecallAtK ==
    /\ rpc = "ready"
    /\ recall' = RecallAtK(predicted, ground_truth, recall_k)
    /\ rpc' = "returned"
    /\ UNCHANGED <<predicted, ground_truth, recall_k>>
    /\ UNCHANGED <<fvars, mvars, tvars, cvars>>

IdLists == UNION {[1..n -> Ids] : n \in 0..(MaxLen + 1)}

RecallInit ==
    /\ predicted \in IdLists
    /\ ground_truth \in IdLists
    /\ recall_k \in RecallKs
    /\ rpc = "ready"
    /\ recall = [num |-> 0, den |-> 1]
    /\ FusionIdle
    /\ MmrIdle
    /\ TopkIdle
    /\ ClientIdle

RecallNext == CalculateRecallAtK

RecallSpec == RecallInit /\ [][RecallNext]_vars

(***************************************************************************)
(* ensure_collection                                                       *)
(***************************************************************************)
CollectionNames == {"docs", "faq"}

\* A VectorParams with the given size
VectorParams(size) == [is_dict |-> FALSE, params |-> {<<"", size>>}]

\* A dict of VectorParams by vector name, as the set of its (name, size) items
NamedVectors(items) == [is_dict |-> TRUE, params |-> items]

\* Python's None, where a configuration is expected
None == [is_dict |-> FALSE, params |-> {}]

VectorConfigs ==
    {VectorParams(4),
     NamedVectors({}),
     NamedVectors({<<"dense", 4>>}),
     NamedVectors({<<"sparse", 0>>}),
     NamedVectors({<<"dense", 4>>, <<"sparse", 0>>})}

\* Lines 64-69: the entries of size 0 become SparseVectorParams()
sparse_cfg(vector_config) ==
    {<<item[1], "SparseVectorParams">> : item \in {i \in vector_config.params : i[2] = 0}}

\* Lines 64-69: the other entries are kept as they are
dense_cfg(vector_config) == {item \in vector_config.params : item[2] # 0}

\* Lines 57-72: the two configurations handed to create_collection
SplitConfig(vector_config) ==
    IF vector_config.is_dict
    THEN [vectors_config |->
             IF Cardinality(dense_cfg(vector_config)) > 0
             THEN NamedVectors(dense_cfg(vector_config)) ELSE None,
          sparse_vectors_config |->
             IF Cardinality(sparse_cfg(vector_config)) > 0
             THEN NamedVectors(sparse_cfg(vector_config)) ELSE None]
    ELSE [vectors_config |-> vector_config, sparse_vectors_config |-> None]

\* The client, whose calls succeed
collection_exists(colls, name) == name \in DOMAIN colls

delete_collection(colls, name) == [n \in (DOMAIN colls) \ {name} |-> colls[n]]

create_collection(colls, name, config) ==
    [n \in (DOMAIN colls) \cup {name} |-> IF n = name THEN config ELSE colls[n]]

Call(op, name) == [op |-> op, collection_name |-> name]

\* The named collection alone, as a function on {} or {name}
Named(colls, name) == [n \in (DOMAIN colls) \cap {name} |-> colls[n]]

\* Mutant of AfterLine52: force_recreate is not looked at.
AfterLine52Always(force_recreate, exists) ==
    IF exists THEN "line53" ELSE "line55"

\* Line 52: where the call goes on
AfterLine52(force_recreate, exists) ==
    IF force_recreate /\ exists THEN "line53" ELSE "line55"

\* Lines 45-52: the call begins; `and` asks the client only when force_recreate
\* is true
EnsureLine52 ==
    /\ ec_pc \in {"idle", "returned"}
    /\ \E name \in CollectionNames, vector_config \in VectorConfigs,
          force_recreate \in BOOLEAN :
          /\ ec_args' = [collection_name |-> name,
                         force_recreate  |-> force_recreate,
                         vector_config   |-> vector_config]
          /\ ec_before' = Named(collections, name)
          /\ client_calls' = IF force_recreate
                             THEN <<Call("collection_exists", name)>> ELSE <<>>
          /\ ec_pc' = AfterLine52(force_recreate, collection_exists(collections, name))
    /\ UNCHANGED collections
    /\ UNCHANGED <<fvars, mvars, tvars, rvars>>

\* Line 53
EnsureLine53 ==
    /\ ec_pc = "line53"
    /\ collections' = delete_collection(collections, ec_args.collection_name)
    /\ client_calls' = Append(client_calls,
                              Call("delete_collection", ec_args.collection_name))
    /\ ec_pc' = "line55"
    /\ UNCHANGED <<ec_args, ec_before>>
    /\ UNCHANGED <<fvars, mvars, tvars, rvars>>

\* Line 55
EnsureLine55 ==
    /\ ec_pc = "line55"
    /\ client_calls' = Append(client_calls,
                              Call("collection_exists", ec_args.collection_name))
    /\ ec_pc' = IF ~collection_exists(collections, ec_args.collection_name)
                THEN "line74" ELSE "line81"
    /\ UNCHANGED <<collections, ec_args, ec_before>>
    /\ UNCHANGED <<fvars, mvars, tvars, rvars>>

\* Lines 56-78: reached only when line 55 found no such collection
EnsureLine74 ==
    /\ ec_pc = "line74"
    /\ collections' = create_collection(collections, ec_args.collection_name,
                                        SplitConfig(ec_args.vector_config))
    /\ client_calls' = Append(client_calls,
                              Call("create_collection", ec_args.collection_name))
    /\ ec_pc' = "line79"
    /\ UNCHANGED <<ec_args, ec_before>>
    /\ UNCHANGED <<fvars, mvars, tvars, rvars>>

\* Lines 79 and 81: the message is printed and the call returns
EnsureReturn ==
    /\ ec_pc \in {"line79", "line81"}
    /\ ec_pc' = "returned"
    /\ UNCHANGED <<collections, ec_args, ec_before, client_calls>>
    /\ UNCHANGED <<fvars, mvars, tvars, rvars>>

EnsureInit ==
    /\ ClientIdle
    /\ FusionIdle
    /\ MmrIdle
    /\ TopkIdle
    /\ RecallIdle

EnsureNext ==
    \/ EnsureLine52
    \/ EnsureLine53
    \/ EnsureLine55
    \/ EnsureLine74
    \/ EnsureReturn

EnsureSpec == EnsureInit /\ [][EnsureNext]_vars

(***************************************************************************)
(* Claims about search_hybrid_fusion, checked under FusionSpec             *)
(***************************************************************************)
IdsOf(results) == {results[i].id : i \in 1..Len(results)}
UnionIds == IdsOf(provider_dense) \cup IdsOf(provider_sparse)
BothIds == IdsOf(provider_dense) \cap IdsOf(provider_sparse)

\* The score the provider gave id in a result list, 0 when the id is not in it.
ScoreOfIn(results, id) ==
    IF id \in IdsOf(results)
    THEN results[CHOOSE i \in 1..Len(results) : results[i].id = id].score
    ELSE 0

\* w * d + (1 - w) * s for id, in fixed point
ExpectedFused(id) ==
    (dense_weight * ScoreOfIn(provider_dense, id)
       + (WScale - dense_weight) * ScoreOfIn(provider_sparse, id)) \div WScale

\* The i-th returned object, as it is after the call
Returned(i) == RefObj(dense_results, sparse_results, fused_results[i])
ReturnedIds == {Returned(i).id : i \in 1..Len(fused_results)}
ReturnedIdSeq == [i \in 1..Len(fused_results) |-> Returned(i).id]

\* C1: every returned result's score is dense_weight * d + (1 - dense_weight) * s,
\* d and s being the id's scores in the dense and the sparse list, 0 when absent.
C1_FusedScoreFormula ==
    fpc = "returned" =>
        \A i \in 1..Len(fused_results) :
            Returned(i).score = ExpectedFused(Returned(i).id)

C1_Witness ==
    /\ fpc = "returned"
    /\ dense_weight = 1
    /\ \E i, j \in 1..Len(fused_results) :
          /\ Returned(i).id \in BothIds
          /\ Returned(j).id \in IdsOf(provider_sparse) \ IdsOf(provider_dense)
          /\ Returned(i).score # ScoreOfIn(provider_dense, Returned(i).id)

\* The spec's scenario: dense [(1,0.9),(2,0.5)], sparse [(2,0.8),(3,0.6)], with
\* the scores counted in tenths.
ExDense == <<[id |-> 1, score |-> 9 * WScale, payload |-> "dense"],
             [id |-> 2, score |-> 5 * WScale, payload |-> "dense"]>>
ExSparse == <<[id |-> 2, score |-> 8 * WScale, payload |-> "sparse"],
              [id |-> 3, score |-> 6 * WScale, payload |-> "sparse"]>>

\* C2: for final_limit >= 0 the call returns min(final_limit, U) ids of the union
\* (U its size), each once, in non-increasing order of fused score; no id left
\* out has a strictly higher fused score than a returned one; with
\* final_limit >= U the whole union is returned; and the spec's scenario with
\* dense_weight 0.5 (when 0.5 is a fixed-point value) ranks [2,1,3].
C2_Ranking ==
    /\ (fpc = "returned" /\ final_limit >= 0) =>
        /\ Len(fused_results) = Min(final_limit, Cardinality(UnionIds))
        /\ \A i, j \in 1..Len(fused_results) : i < j => Returned(i).id # Returned(j).id
        /\ ReturnedIds \subseteq UnionIds
        /\ \A i \in 1..(Len(fused_results) - 1) :
              ExpectedFused(Returned(i).id) >= ExpectedFused(Returned(i + 1).id)
        /\ \A x \in UnionIds \ ReturnedIds : \A y \in ReturnedIds :
              ExpectedFused(x) <= ExpectedFused(y)
        /\ final_limit >= Cardinality(UnionIds) => ReturnedIds = UnionIds
    /\ (fpc = "returned" /\ WScale % 2 = 0) =>
          sorted_ids(ExDense, ExSparse, WScale \div 2, 3) = <<2, 1, 3>>

C2_Witness ==
    /\ fpc = "returned"
    /\ Cardinality(UnionIds) = 3
    /\ final_limit = 2
    /\ Len(fused_results) = 2
    /\ \E x \in UnionIds \ ReturnedIds : ExpectedFused(x) = ExpectedFused(Returned(2).id)
    /\ ExpectedFused(Returned(1).id) > ExpectedFused(Returned(2).id)

\* C3: on an id returned by both searches the dense object, the first in
\* dense_results + sparse_results, is the one returned.
C3_DenseMetadataWins ==
    fpc = "returned" =>
        \A i \in 1..Len(fused_results) :
            Returned(i).id \in BothIds =>
                /\ fused_results[i][1] = "dense"
                /\ Returned(i).payload = "dense"

\* The first n ids of a result list, in the provider's order
PrefixIds(results, n) ==
    [i \in 1..Min(n, Len(results)) |-> results[i].id]

DistinctScores(results) ==
    \A i, j \in 1..Len(results) : i < j => results[i].score # results[j].score

\* C5 as claimed: with dense_weight 1.0 the returned ranking is the dense
\* ranking, with dense_weight 0.0 the sparse ranking.
C5_WeightBoundary ==
    (fpc = "returned" /\ final_limit >= 0) =>
        /\ dense_weight = WScale => ReturnedIdSeq = PrefixIds(provider_dense, final_limit)
        /\ dense_weight = 0 => ReturnedIdSeq = PrefixIds(provider_sparse, final_limit)

\* Ranking of the union by one list's scores alone, absent counting as 0
RankedBy(results) ==
    /\ \A i \in 1..Len(fused_results) :
          Returned(i).score = ScoreOfIn(results, Returned(i).id)
    /\ \A i \in 1..(Len(fused_results) - 1) :
          ScoreOfIn(results, Returned(i).id) >= ScoreOfIn(results, Returned(i + 1).id)
    /\ \A x \in UnionIds \ ReturnedIds : \A y \in ReturnedIds :
          ScoreOfIn(results, x) <= ScoreOfIn(results, y)
    /\ Len(fused_results) = Min(final_limit, Cardinality(UnionIds))
    /\ (UnionIds = IdsOf(results) /\ DistinctScores(results)) =>
          ReturnedIdSeq = PrefixIds(results, final_limit)

\* C5 as amended: with dense_weight 1.0 (0.0) the union of the ids is ranked by
\* dense (sparse) score alone, an id the dense (sparse) search did not return
\* counting as 0 and still being returned; the ranking is the dense (sparse)
\* list's own when that list holds every id and its scores are distinct.
C5_WeightBoundaryUnion ==
    (fpc = "returned" /\ final_limit >= 0) =>
        /\ dense_weight = WScale => RankedBy(provider_dense)
        /\ dense_weight = 0 => RankedBy(provider_sparse)

C5_Witness ==
    /\ fpc = "returned"
    /\ dense_weight = WScale
    /\ final_limit = 3
    /\ Len(provider_dense) = 2
    /\ DistinctScores(provider_dense)
    /\ IdsOf(provider_sparse) \subseteq IdsOf(provider_dense)
    /\ Len(provider_sparse) = 2
    /\ provider_sparse[1].id = provider_dense[2].id
    /\ ReturnedIdSeq = PrefixIds(provider_dense, 3)

\* C6: a dense_weight outside [0,1] makes the call fail with InvalidArgument
\* and return nothing.
C6_InvalidWeightRejected ==
    (fpc = "returned" /\ (dense_weight < 0 \/ dense_weight > WScale)) =>
        /\ fusion_error = "InvalidArgument"
        /\ fused_results = <<>>

\* C7 as claimed: after the call every input candidate has the score the
\* provider gave it.
C7_InputsKeepScores ==
    fpc = "returned" =>
        /\ dense_results = provider_dense
        /\ sparse_results = provider_sparse

IsReturned(src, pos) == \E j \in 1..Len(fused_results) : fused_results[j] = Ref(src, pos)

AfterCall(after, before, src) ==
    /\ Len(after) = Len(before)
    /\ \A i \in 1..Len(before) :
          /\ after[i].id = before[i].id
          /\ after[i].payload = before[i].payload
          /\ IsReturned(src, i) => after[i].score = ExpectedFused(before[i].id)
          /\ ~IsReturned(src, i) => after[i].score = before[i].score

\* C7 as amended: the returned candidates are the input objects themselves with
\* score overwritten by the fused score; every input candidate that is not
\* returned (the dense object of an id both searches returned included) has
\* the score the provider gave it, and no id or payload changes.
C7_OnlyReturnedOverwritten ==
    fpc = "returned" =>
        /\ AfterCall(dense_results, provider_dense, "dense")
        /\ AfterCall(sparse_results, provider_sparse, "sparse")
        /\ \A i \in 1..Len(provider_dense) :
              provider_dense[i].id \in BothIds => ~IsReturned("dense", i)

C7_Witness ==
    /\ fpc = "returned"
    /\ \E i \in 1..Len(provider_dense) : \E j \in 1..Len(provider_sparse) :
          /\ provider_dense[i].id = provider_sparse[j].id
          /\ IsReturned("sparse", j)
          /\ sparse_results[j].score # provider_sparse[j].score
          /\ dense_results[i].score = provider_dense[i].score
          /\ dense_results[i].score # ExpectedFused(provider_dense[i].id)
    /\ \E i \in 1..Len(provider_dense) : dense_results[i].score # provider_dense[i].score

(***************************************************************************)
(* Claims about mmr_rerank, checked under MmrSpec                          *)
(***************************************************************************)
SeqRange(seq) == {seq[i] : i \in 1..Len(seq)}
LastOf(seq) == seq[Len(seq)]

\* A step of the loop: one more index has been selected
Selects == mpc = "loop" /\ Len(selected_indices') = Len(selected_indices) + 1

\* C8: for every k >= 0, k = 0 included, mmr_rerank returns min(k, n) of its n
\* candidates.
C8_Cardinality ==
    mpc = "returned" =>
        Len(mmr_result) = Min(k, NumCandidates(candidate_vectors))

\* Cosine similarity of candidates i and j
CosSim(i, j) ==
    Dot(Normalized(candidate_vectors[i]), Normalized(candidate_vectors[j]))

\* The plain maximum of the similarities of i to the selected candidates
PlainMaxSim(i) ==
    LET sims == {CosSim(i, j) : j \in SeqRange(selected_indices)}
    IN CHOOSE m \in sims : \A x \in sims : x <= m

\* lambda * relevance(i) - (1 - lambda) * max_sim(i) with the plain maximum
PlainMmrScore(i) ==
    lambda_param * Dot(Normalized(candidate_vectors[i]), Normalized(query_vector))
        - (LScale - lambda_param) * PlainMaxSim(i)

\* C9: every selection after the first picks an unselected candidate that
\* maximizes lambda * relevance - (1 - lambda) * max_sim, max_sim being the plain
\* maximum of the dot products with the selected candidates, negative when all
\* of them are.
C9_PlainMaxSelection ==
    [][Selects =>
        \A i \in SeqRange(remaining_indices) :
            PlainMmrScore(i) <= PlainMmrScore(LastOf(selected_indices'))]_vars

\* The value the loop compares for candidate i: the mmr_score of line 373
StepScore(i) ==
    mmr_score(query_vector, candidate_vectors, lambda_param, i, selected_indices)

Relevance(i) == Dot(Normalized(candidate_vectors[i]), Normalized(query_vector))

\* C10: the first pick has the lowest index among the candidates of maximum
\* relevance, and every later pick the lowest index among the unselected
\* candidates of maximum mmr_score.
C10_LowestIndexOnTie ==
    /\ [][(mpc = "ready" /\ mpc' = "loop") =>
            \A i \in DOMAIN candidate_vectors :
                /\ Relevance(i) <= Relevance(selected_indices'[1])
                /\ Relevance(i) = Relevance(selected_indices'[1])
                      => selected_indices'[1] <= i]_vars
    /\ [][Selects =>
            \A i \in SeqRange(remaining_indices) :
                /\ StepScore(i) <= StepScore(LastOf(selected_indices'))
                /\ StepScore(i) = StepScore(LastOf(selected_indices'))
                      => LastOf(selected_indices') <= i]_vars

\* A first pick and a later pick that were both decided by the index
C10_Witness ==
    /\ mpc = "returned"
    /\ Len(mmr_result) = 3
    /\ Relevance(mmr_result[1]) = Relevance(mmr_result[3])
    /\ mmr_result[1] < mmr_result[3]
    /\ lambda_param = LScale
    /\ Relevance(mmr_result[2]) = Relevance(mmr_result[3])
    /\ mmr_result[2] < mmr_result[3]
    /\ candidate_vectors[mmr_result[2]] # candidate_vectors[mmr_result[3]]

\* Candidate j comes before candidate i in the order by relevance, descending,
\* ties by lowest original index
MoreRelevant(j, i) ==
    \/ Relevance(j) > Relevance(i)
    \/ Relevance(j) = Relevance(i) /\ j < i

\* C11: with lambda = 1.0 and k >= 1 the returned order is the first k
\* candidates of the list sorted by relevance, descending, ties by lowest index.
C11_LambdaOneIsRelevanceOrder ==
    (mpc = "returned" /\ lambda_param = LScale /\ k >= 1) =>
        /\ Len(mmr_result) = Min(k, NumCandidates(candidate_vectors))
        /\ \A p \in 1..Len(mmr_result) :
              Cardinality({j \in DOMAIN candidate_vectors :
                              MoreRelevant(j, mmr_result[p])}) = p - 1

\* Three candidates returned out of index order, the second one closer to the
\* first than the third is: a lower lambda would have had reason to pass it over.
C11_Witness ==
    /\ mpc = "returned"
    /\ lambda_param = LScale
    /\ k = 2
    /\ NumCandidates(candidate_vectors) = 3
    /\ Len(mmr_result) = 2
    /\ mmr_result[1] > mmr_result[2]
    /\ \E j \in DOMAIN candidate_vectors :
          /\ j \notin SeqRange(mmr_result)
          /\ Relevance(j) < Relevance(mmr_result[2])
          /\ CosSim(j, mmr_result[1]) < CosSim(mmr_result[2], mmr_result[1])

HasZeroNorm ==
    \/ Norm(query_vector) = 0
    \/ \E i \in DOMAIN candidate_vectors : Norm(candidate_vectors[i]) = 0

\* C12: a call with candidates in which the query or a candidate vector has
\* zero norm fails with InvalidArgument and returns no ranking.
C12_ZeroNormRejected ==
    (mpc = "returned" /\ NumCandidates(candidate_vectors) > 0 /\ HasZeroNorm) =>
        /\ mmr_error = "InvalidArgument"
        /\ mmr_result = <<>>

(***************************************************************************)
(* Claims about the index lists of mmr_rerank, checked under MmrAnySpec    *)
(***************************************************************************)
NoDuplicates(seq) == \A a, b \in 1..Len(seq) : a # b => seq[a] # seq[b]
Ascending(seq) == \A a, b \in 1..Len(seq) : a < b => seq[a] < seq[b]

\* C15: from the first selection to the return of mmr_rerank on a non-empty
\* list, selected_indices and remaining_indices are disjoint, neither holds a
\* duplicate, together they are exactly 0..n-1 and remaining_indices ascends;
\* so the returned list holds only input candidates, each at most once.
C15_IndexPartition ==
    (mpc \in {"loop", "returned"} /\ NumCandidates(candidate_vectors) > 0) =>
        /\ SeqRange(selected_indices) \cap SeqRange(remaining_indices) = {}
        /\ NoDuplicates(selected_indices)
        /\ NoDuplicates(remaining_indices)
        /\ SeqRange(selected_indices) \cup SeqRange(remaining_indices)
              = DOMAIN candidate_vectors
        /\ Ascending(remaining_indices)
        /\ mpc = "returned" =>
              /\ NoDuplicates(mmr_result)
              /\ SeqRange(mmr_result) \subseteq DOMAIN candidate_vectors

\* Two selections out of ascending order, with a candidate left over
C15_Witness ==
    /\ mpc = "returned"
    /\ Len(selected_indices) = 2
    /\ selected_indices[1] > selected_indices[2]
    /\ Len(remaining_indices) = 1
    /\ mmr_result = selected_indices

(***************************************************************************)
(* Claims about exact_topk, checked under TopkSpec                         *)
(***************************************************************************)
TopkSim(i) == Dot(Normalized(all_vectors[i]), Normalized(topk_query_vector))

\* Index j comes before index i: more similar, or as similar and lower
TopkBefore(j, i) ==
    \/ TopkSim(j) > TopkSim(i)
    \/ TopkSim(j) = TopkSim(i) /\ j < i

\* C13: exact_topk returns min(k, n) pairs (index, score) in non-increasing order
\* of similarity, the lower index first among equal similarities, also at the
\* cut.
C13_TopkLowestIndexFirst ==
    (tpc = "returned" /\ topk_k >= 0) =>
        /\ Len(topk_result) = Min(topk_k, NumCandidates(all_vectors))
        /\ \A p \in 1..Len(topk_result) :
              /\ topk_result[p][2] = TopkSim(topk_result[p][1])
              /\ Cardinality({j \in DOMAIN all_vectors :
                                 TopkBefore(j, topk_result[p][1])}) = p - 1

(***************************************************************************)
(* Claims about calculate_recall_at_k, checked under RecallSpec            *)
(***************************************************************************)
CutEqualAsSets ==
    PySet(PySlicePrefix(predicted, recall_k)) = PySet(PySlicePrefix(ground_truth, recall_k))

InUnitInterval(x) == x.den > 0 /\ 0 <= x.num /\ x.num <= x.den
IsOne(x) == x.den > 0 /\ x.num = x.den
IsZero(x) == x.den > 0 /\ x.num = 0

\* C14 as claimed: the result is in [0.0, 1.0], and it is 1.0 whenever
\* predicted[:k] and ground_truth[:k] are equal as sets, both empty included.
C14_RecallOneOnEqualSets ==
    rpc = "returned" =>
        /\ InUnitInterval(recall)
        /\ CutEqualAsSets => IsOne(recall)

\* C14 as amended: the result is in [0.0, 1.0]; it is 1.0 whenever
\* predicted[:k] and ground_truth[:k] are equal as sets and not empty, and 0.0
\* whenever ground_truth[:k] is empty.
C14_RecallOneOnEqualNonEmptySets ==
    rpc = "returned" =>
        /\ InUnitInterval(recall)
        /\ (CutEqualAsSets /\ PySlicePrefix(ground_truth, recall_k) # <<>>)
              => IsOne(recall)
        /\ PySlicePrefix(ground_truth, recall_k) = <<>> => IsZero(recall)

\* Equal as sets only because of the cut at k, and not equal as lists
C14_Witness ==
    /\ rpc = "returned"
    /\ recall_k = 2
    /\ Len(predicted) = 3
    /\ Len(ground_truth) = 3
    /\ CutEqualAsSets
    /\ PySet(predicted) # PySet(ground_truth)
    /\ PySlicePrefix(predicted, recall_k) # PySlicePrefix(ground_truth, recall_k)
    /\ IsOne(recall)

(***************************************************************************)
(* Claims about ensure_collection, checked under EnsureSpec                *)
(***************************************************************************)
\* The positions of the latest call's client calls of the given operation
CallsOf(op) == {p \in 1..Len(client_calls) : client_calls[p].op = op}

Existed == ec_args.collection_name \in DOMAIN ec_before

\* C16: after every call of ensure_collection the named collection exists;
\* without force_recreate an existing collection is neither deleted nor created
\* again, only collection_exists being called; with force_recreate an existing
\* collection is deleted exactly once and then created exactly once.
C16_EnsureCollection ==
    ec_pc = "returned" =>
        /\ ec_args.collection_name \in DOMAIN collections
        /\ (~ec_args.force_recreate /\ Existed) =>
              /\ CallsOf("delete_collection") = {}
              /\ CallsOf("create_collection") = {}
              /\ CallsOf("collection_exists") = 1..Len(client_calls)
              /\ Len(client_calls) >= 1
        /\ (ec_args.force_recreate /\ Existed) =>
              /\ Cardinality(CallsOf("delete_collection")) = 1
              /\ Cardinality(CallsOf("create_collection")) = 1
              /\ \A d \in CallsOf("delete_collection"), c \in CallsOf("create_collection") :
                    d < c

\* A hybrid collection made again, by force, over a collection of another
\* configuration, after earlier calls made both collections
C16_Witness ==
    /\ ec_pc = "returned"
    /\ ec_args.force_recreate
    /\ Existed
    /\ DOMAIN collections = CollectionNames
    /\ collections[ec_args.collection_name] # ec_before[ec_args.collection_name]
    /\ collections[ec_args.collection_name].sparse_vectors_config # None
    /\ Len(client_calls) = 4

====
